---------------------------- MODULE Spec2Model ----------------------------
(***************************************************************************)
(* NavigationService (web-ng/src/app/services/router/router.service.ts):   *)
(* the URL fragment as application state.                                  *)
(*                                                                         *)
(* A string is a sequence of one-character strings, so that the parsing    *)
(* and the serialisation of the fragment are computed character by         *)
(* character, as HttpParams and its codec compute them.  The alphabet is   *)
(* letters and digits, which encodeURIComponent leaves alone, and the      *)
(* three characters "=", "&" and "%".                                      *)
(***************************************************************************)
EXTENDS Integers, Sequences, FiniteSets

(***************************************************************************)
(* JavaScript values that are not strings.  Each is a one-element sequence *)
(* holding a word that is no character, so it compares with any string.    *)
(***************************************************************************)
Null      == << "null" >>
Undefined == << "undefined" >>
URIError  == << "URIError" >>
TypeError == << "TypeError" >>

NonStrings == {Null, Undefined, URIError, TypeError}

\* JavaScript truthiness of a value that is a string, null or undefined.
Truthy(v) == v \notin NonStrings /\ v # << >>

\* `fragment || ''`
OrEmpty(v) == IF Truthy(v) THEN v ELSE << >>

---------------------------------------------------------------------------
(* String primitives. *)

\* String.prototype.indexOf(c), 1-based; 0 when c does not occur.
IndexOf(s, c) ==
    IF \E i \in 1..Len(s) : s[i] = c
    THEN CHOOSE i \in 1..Len(s) : s[i] = c /\ \A j \in 1..(i - 1) : s[j] # c
    ELSE 0

RECURSIVE Split(_, _)
\* String.prototype.split(c): "" splits into [""].
Split(s, c) ==
    LET i == IndexOf(s, c)
    IN  IF i = 0 THEN << s >>
        ELSE << SubSeq(s, 1, i - 1) >> \o Split(SubSeq(s, i + 1, Len(s)), c)

RECURSIVE Join(_, _)
\* Array.prototype.join(sep) of an array of strings.
Join(parts, sep) ==
    IF parts = << >> THEN << >>
    ELSE IF Len(parts) = 1 THEN parts[1]
    ELSE parts[1] \o sep \o Join(Tail(parts), sep)

IsPrefix(p, s) == Len(p) <= Len(s) /\ SubSeq(s, 1, Len(p)) = p

RECURSIVE ReplaceAll(_, _, _)
\* String.prototype.replace(/pat/g, rep)
ReplaceAll(s, pat, rep) ==
    IF s = << >> THEN << >>
    ELSE IF IsPrefix(pat, s)
         THEN rep \o ReplaceAll(SubSeq(s, Len(pat) + 1, Len(s)), pat, rep)
         ELSE << s[1] >> \o ReplaceAll(Tail(s), pat, rep)

---------------------------------------------------------------------------
(* The codec of HttpParams (HttpUrlEncodingCodec). *)

\* An encoding that escapes nothing.
EncodeCharIdentity(c) == << c >>

\* encodeURIComponent of one character of the alphabet.
EncodeChar(c) ==
    CASE c = "%" -> << "%", "2", "5" >>
      [] c = "&" -> << "%", "2", "6" >>
      [] c = "=" -> << "%", "3", "D" >>
      [] OTHER   -> << c >>

RECURSIVE EncodeURIComponent(_)
EncodeURIComponent(s) ==
    IF s = << >> THEN << >>
    ELSE EncodeChar(s[1]) \o EncodeURIComponent(Tail(s))

\* standardEncoding: encodeURIComponent, then "%3D" is put back to "=".
\* (Of the characters standardEncoding puts back, "=" is the one in the
\* alphabet.)
StandardEncoding(v) ==
    ReplaceAll(EncodeURIComponent(v), << "%", "3", "D" >>, << "=" >>)

\* The escapes over the alphabet that decodeURIComponent accepts; every
\* other "%" (no two hex digits after it) is a URIError.  The fragments the
\* model starts from hold no well-formed escape outside this table.
IsEscape(h1, h2) ==
    \/ h1 = "2" /\ h2 \in {"5", "6"}
    \/ h1 = "3" /\ h2 = "D"

Unescape(h1, h2) ==
    CASE h1 = "2" /\ h2 = "5" -> "%"
      [] h1 = "2" /\ h2 = "6" -> "&"
      [] h1 = "3" /\ h2 = "D" -> "="

RECURSIVE DecodeURIComponent(_)
\* decodeURIComponent: the decoded string, or URIError.
DecodeURIComponent(s) ==
    IF s = << >> THEN << >>
    ELSE IF s[1] # "%"
         THEN LET rest == DecodeURIComponent(Tail(s))
              IN  IF rest = URIError THEN URIError ELSE << s[1] >> \o rest
    ELSE IF Len(s) >= 3 /\ IsEscape(s[2], s[3])
         THEN LET rest == DecodeURIComponent(SubSeq(s, 4, Len(s)))
              IN  IF rest = URIError THEN URIError
                  ELSE << Unescape(s[2], s[3]) >> \o rest
    ELSE URIError

---------------------------------------------------------------------------
(* HttpParams: a Map from key to the list of its values, in insertion      *)
(* order, as a sequence of entries [key, vals].                            *)

HasKey(m, k) == \E i \in 1..Len(m) : m[i].key = k

KeyIndex(m, k) == CHOOSE i \in 1..Len(m) : m[i].key = k

\* Map.prototype.get
MapGet(m, k) == IF HasKey(m, k) THEN m[KeyIndex(m, k)].vals ELSE << >>

\* A map that puts a new key first.
MapSetFront(m, k, vals) ==
    IF HasKey(m, k)
    THEN [m EXCEPT ![KeyIndex(m, k)] = [key |-> k, vals |-> vals]]
    ELSE << [key |-> k, vals |-> vals] >> \o m

\* Map.prototype.set: an existing key keeps its place, a new one goes last.
MapSet(m, k, vals) ==
    IF HasKey(m, k)
    THEN [m EXCEPT ![KeyIndex(m, k)] = [key |-> k, vals |-> vals]]
    ELSE Append(m, [key |-> k, vals |-> vals])

\* Map.prototype.delete
MapDelete(m, k) == SelectSeq(m, LAMBDA e : e.key # k)

ParseError == [err |-> TRUE, map |-> << >>]

RECURSIVE ParseInto(_, _)
\* The forEach of paramParser over the "&"-separated params.
ParseInto(params, acc) ==
    IF params = << >> \/ acc.err THEN acc
    ELSE LET param == params[1]
             eqIdx == IndexOf(param, "=")
             key   == IF eqIdx = 0 THEN DecodeURIComponent(param)
                      ELSE DecodeURIComponent(SubSeq(param, 1, eqIdx - 1))
             val   == IF eqIdx = 0 THEN << >>
                      ELSE DecodeURIComponent(SubSeq(param, eqIdx + 1, Len(param)))
         IN  IF key = URIError \/ val = URIError THEN ParseError
             ELSE ParseInto(Tail(params),
                     [err |-> FALSE,
                      map |-> MapSet(acc.map, key, Append(MapGet(acc.map, key), val))])

\* new HttpParams({fromString: raw}): [err, map]; err when the codec throws.
ParamParser(raw) ==
    IF Len(raw) > 0
    THEN ParseInto(Split(raw, "&"), [err |-> FALSE, map |-> << >>])
    ELSE [err |-> FALSE, map |-> << >>]

\* HttpParams.get: the first value of the key, or null.
Get(m, k) == IF HasKey(m, k) THEN MapGet(m, k)[1] ELSE Null

\* HttpParams.set
Set(m, k, v) == MapSet(m, k, << v >>)

\* HttpParams.delete
Delete(m, k) == MapDelete(m, k)

RECURSIVE EncodeVals(_, _)
EncodeVals(eKey, vals) ==
    IF vals = << >> THEN << >>
    ELSE << eKey \o << "=" >> \o StandardEncoding(vals[1]) >>
         \o EncodeVals(eKey, Tail(vals))

RECURSIVE EncodeEntries(_)
EncodeEntries(m) ==
    IF m = << >> THEN << >>
    ELSE << Join(EncodeVals(StandardEncoding(m[1].key), m[1].vals), << "&" >>) >>
         \o EncodeEntries(Tail(m))

\* The encoding that writes the keys of the service only.
ToStringKnownKeys(m) ==
    Join(SelectSeq(EncodeEntries(SelectSeq(m,
             LAMBDA e : e.key \in {<< "l" >>, << "f" >>, << "o" >>})),
                   LAMBDA p : p # << >>), << "&" >>)

\* HttpParams.toString
ToString(m) ==
    Join(SelectSeq(EncodeEntries(m), LAMBDA p : p # << >>), << "&" >>)

---------------------------------------------------------------------------
(* The fragment keys and the side-nav modes. *)

LAYER_ID_FRAGMENT_PARAM       == << "l" >>
FEATURE_ID_FRAGMENT_PARAM     == << "f" >>
OBSERVATION_ID_FRAGMENT_PARAM == << "o" >>
PROJECT_SEGMENT == "project"
SIGN_IN_SEGMENT == "signin"

LAYER_LIST  == << "LAYER_LIST" >>
OBSERVATION == << "OBSERVATION" >>
FEATURE     == << "FEATURE" >>

\* The projection with the feature tested first.
FeatureFirstSideNavMode(params) ==
    IF Truthy(Get(params, FEATURE_ID_FRAGMENT_PARAM)) THEN FEATURE
    ELSE IF Truthy(Get(params, OBSERVATION_ID_FRAGMENT_PARAM)) THEN OBSERVATION
    ELSE LAYER_LIST

\* The projection by the presence of the keys (HttpParams.has).
PresenceSideNavMode(params) ==
    IF HasKey(params, OBSERVATION_ID_FRAGMENT_PARAM) THEN OBSERVATION
    ELSE IF HasKey(params, FEATURE_ID_FRAGMENT_PARAM) THEN FEATURE
    ELSE LAYER_LIST

\* fragmentParamsToSideNavMode(params)
FragmentParamsToSideNavMode(params) ==
    IF Truthy(Get(params, OBSERVATION_ID_FRAGMENT_PARAM)) THEN OBSERVATION
    ELSE IF Truthy(Get(params, FEATURE_ID_FRAGMENT_PARAM)) THEN FEATURE
    ELSE LAYER_LIST

---------------------------------------------------------------------------
(* The inputs of the model. *)

\* The most operations (and navigations from outside) of one run.
MaxCalls == 2
\* The same for the runs that start from the URL of the end-to-end scenario.
MaxScenarioCalls == 3

F2 == << "F", "2" >>
F9 == << "F", "9" >>
O3 == << "O", "3" >>
L1 == << "L", "1" >>
Q  == << "q" >>

KV(k, v)  == k \o << "=" >> \o v
Amp(a, b) == a \o << "&" >> \o b

FeatureIds     == {F2, F9, Null}
ObservationIds == {O3, << "%", "&" >>, Null}
LayerIds       == {Q, << >>}
EditObservationIds == {O3, Null}

P1Path      == << PROJECT_SEGMENT, "p1" >>
P2Path      == << PROJECT_SEGMENT, "p2" >>
RootPath    == << >>

ScenarioStart == [path |-> P1Path, fragment |-> KV(<< "l" >>, L1)]

\* The fragments a run may start from (the fragment of the URL the browser
\* opened, as ActivatedRoute decodes it): well-formed ones, ones with an
\* empty value, a repeated key or a bare token, and one HttpParams cannot
\* decode.  No key holds an encoded "=".
InitFragments ==
    { Null,
      KV(<< "f" >>, F2),
      Amp(KV(<< "f" >>, F2), KV(<< "o" >>, O3)),
      Amp(KV(<< "o" >>, O3), Amp(KV(<< "l" >>, L1), KV(<< "f" >>, F2))),
      KV(<< "o" >>, O3),
      Amp(KV(<< "k" >>, Q), KV(<< "l" >>, L1)),
      Amp(KV(<< "k" >>, << "%", "2", "6", "=" >>), KV(<< "k" >>, Q)),
      Amp(KV(<< "f" >>, F2), KV(<< "o" >>, << >>)),
      KV(<< "f" >>, << >>),
      KV(<< "o" >>, << >>),
      Amp(KV(<< "o" >>, << >>), KV(<< "o" >>, O3)),
      << "o" >>,
      << "%" >> }

InitUrls ==
    {ScenarioStart}
    \cup {[path |-> P1Path, fragment |-> fr] : fr \in InitFragments}
    \cup {[path |-> RootPath, fragment |-> fr] : fr \in {Null, KV(<< "f" >>, F2)}}

\* The URL a navigation from outside the service goes to (a link, the
\* address bar, selectProject of another component): another project, with
\* another fragment.
ExternalUrls ==
    { [path |-> P2Path, fragment |-> KV(<< "l" >>, L1)] }

---------------------------------------------------------------------------
(* The state. *)

VARIABLES
    initialized,  \* init(route) has run: activatedRoute and the streams are set
    url,          \* the settled URL: router.url and activatedRoute.snapshot,
                  \*   [path, fragment]; fragment is a string, null or undefined
    pending,      \* the navigation the router has in flight: << >> or << request >>
    history,      \* the browser's history entries, oldest first
    subscribed,   \* a consumer has subscribed to the five streams
    last,         \* the value each stream delivered last to that consumer
    emits,        \* the streams that notified the consumer in the last step
    views,        \* the notifications of the last step, in their order, each
                  \*   with the values the consumer then holds of the streams
    result,       \* the last call of a method of the service and its outcome,
                  \*   with the route before it and the navigation in flight
                  \*   then, and the decoded fragments before it and requested
    scenario,     \* how far the run has followed ScenarioCalls, each call
                  \*   made on a settled route: 2k after k calls have settled,
                  \*   2k-1 while the k-th is in flight, -1 once it has left
    callsLeft     \* the operations this run may still make

vars == << initialized, url, pending, history, subscribed, last, emits,
           views, result, scenario, callsLeft >>

Streams == {"projectId", "layerId", "featureId", "observationId", "sideNavMode"}
FragmentStreams == Streams \ {"projectId"}

NotSubscribed == << "not subscribed" >>
StreamError   == << "stream error" >>
ObservableRef == << "Observable" >>

NoUrl     == [path |-> << >>, fragment |-> Null]
NoRequest == [path |-> << >>, fragment |-> Null, replaceUrl |-> FALSE, by |-> "none"]
NoParams  == [err |-> FALSE, map |-> << >>]
NoResult  == [op |-> "none", id |-> Null, pre |-> NoUrl, initialized |-> FALSE,
              inflight |-> << >>, kind |-> "none", value |-> Undefined,
              request |-> NoRequest, preParams |-> NoParams,
              requestParams |-> NoParams]

---------------------------------------------------------------------------
(* The router, as the service uses it. *)

\* encodeURI of a fragment, over the alphabet: only "%" is escaped.
RECURSIVE EncodeUriFragment(_)
EncodeUriFragment(s) ==
    IF s = << >> THEN << >>
    ELSE (IF s[1] = "%" THEN << "%", "2", "5" >> ELSE << s[1] >>)
         \o EncodeUriFragment(Tail(s))

\* The part of the serialised URL from "#" on: nothing when the UrlTree's
\* fragment is no string.
Hash(fragment) ==
    IF fragment \in NonStrings THEN << >>
    ELSE << "#" >> \o EncodeUriFragment(fragment)

\* router.url / the browser's URL of a UrlTree.
UrlString(u) == [path |-> u.path, hash |-> Hash(u.fragment)]

\* The route parameter projectId of the route `project/:projectId`.
ProjectIdOf(path) ==
    IF Len(path) = 2 /\ path[1] = PROJECT_SEGMENT THEN << path[2] >> ELSE Null

\* What stream s computes from the route state u.
StreamValue(s, u) ==
    IF s = "projectId" THEN ProjectIdOf(u.path)
    ELSE LET p == ParamParser(OrEmpty(u.fragment))
         IN  IF p.err THEN StreamError
             ELSE CASE s = "layerId"       -> Get(p.map, LAYER_ID_FRAGMENT_PARAM)
                    [] s = "featureId"     -> Get(p.map, FEATURE_ID_FRAGMENT_PARAM)
                    [] s = "observationId" -> Get(p.map, OBSERVATION_ID_FRAGMENT_PARAM)
                    [] s = "sideNavMode"   -> FragmentParamsToSideNavMode(p.map)

\* The sources the router pushes a value into when the route state goes
\* from u to v: route.fragment when the fragment differs (!==), and
\* route.paramMap when the parameters differ.
Notified(u, v) ==
    (IF u.fragment # v.fragment THEN FragmentStreams ELSE {})
    \cup (IF ProjectIdOf(u.path) # ProjectIdOf(v.path) THEN {"projectId"} ELSE {})

\* The order in which the router's pushes reach the consumer: the router
\* pushes route.fragment before the route parameters, and a source calls
\* its subscribers one after the other, here in the order init makes them.
NotificationOrder ==
    << "layerId", "featureId", "observationId", "sideNavMode", "projectId" >>

RECURSIVE Deliveries(_, _, _)
\* The notifications of the streams of order, one by one, to a consumer
\* holding the values held, when the route state becomes u.
Deliveries(order, held, u) ==
    IF order = << >> THEN << >>
    ELSE LET now == [held EXCEPT ![order[1]] = StreamValue(order[1], u)]
         IN  << [stream |-> order[1], held |-> now] >>
             \o Deliveries(Tail(order), now, u)

---------------------------------------------------------------------------
(* The methods of NavigationService. *)

Throws(e)    == [kind |-> "throws", value |-> e, request |-> NoRequest]
Returns(v)   == [kind |-> "returns", value |-> v, request |-> NoRequest]
Navigates(r) == [kind |-> "navigate", value |-> Undefined, request |-> r]

\* getFragmentParams(): [exc, map]; exc is null when nothing is thrown.
getFragmentParams ==
    IF ~initialized THEN [exc |-> TypeError, map |-> << >>]
    ELSE LET p == ParamParser(OrEmpty(url.fragment))
         IN  IF p.err THEN [exc |-> URIError, map |-> << >>]
             ELSE [exc |-> Null, map |-> p.map]

\* Extras that always carry the serialised fragment, empty or not.
NavigationExtrasAlways(str) == [fragment |-> str, replaceUrl |-> FALSE]

\* The NavigationExtras of the navigation for a serialised fragment.
NavigationExtras(str) ==
    IF Truthy(str) THEN [fragment |-> str, replaceUrl |-> FALSE]
    ELSE [fragment |-> Undefined, replaceUrl |-> FALSE]

\* setFragmentParams(params)
setFragmentParams(params) ==
    IF url.path = << >> THEN Throws(TypeError)
    ELSE LET extras == NavigationExtras(ToString(params))
         IN  Navigates([path |-> url.path, fragment |-> extras.fragment,
                        replaceUrl |-> extras.replaceUrl, by |-> "service"])

RECURSIVE ApplyUpdatesSetEmpty(_, _)
\* The loop with a falsy value stored as the empty string.
ApplyUpdatesSetEmpty(params, updates) ==
    IF updates = << >> THEN params
    ELSE ApplyUpdatesSetEmpty(
             Set(params, updates[1][1], OrEmpty(updates[1][2])), Tail(updates))

RECURSIVE ApplyUpdates(_, _)
\* The loop of setFragmentParam over the updates, in their order.
ApplyUpdates(params, updates) ==
    IF updates = << >> THEN params
    ELSE LET key   == updates[1][1]
             value == updates[1][2]
         IN  ApplyUpdates(IF Truthy(value) THEN Set(params, key, value)
                          ELSE Delete(params, key),
                          Tail(updates))

\* setFragmentParam(updates)
setFragmentParam(updates) ==
    LET got == getFragmentParams
    IN  IF got.exc # Null THEN Throws(got.exc)
        ELSE setFragmentParams(ApplyUpdates(got.map, updates))

\* getFeatureId()
getFeatureId ==
    LET got == getFragmentParams
    IN  IF got.exc # Null THEN Throws(got.exc)
        ELSE Returns(Get(got.map, FEATURE_ID_FRAGMENT_PARAM))

\* getObservationId()
getObservationId ==
    LET got == getFragmentParams
    IN  IF got.exc # Null THEN Throws(got.exc)
        ELSE Returns(Get(got.map, OBSERVATION_ID_FRAGMENT_PARAM))

\* The updates without the cascade to the observation.
FeatureUpdatesNoCascade(id, observationId) ==
    << << FEATURE_ID_FRAGMENT_PARAM, id >> >>

\* The updates setFeatureId(id) builds, given the current observation id.
FeatureUpdates(id, observationId) ==
    << << FEATURE_ID_FRAGMENT_PARAM, id >> >>
    \o (IF Truthy(observationId)
        THEN << << OBSERVATION_ID_FRAGMENT_PARAM, Null >> >>
        ELSE << >>)

\* setFeatureId(id)
SetFeatureIdOutcome(id) ==
    LET obs == getObservationId
    IN  IF obs.kind = "throws" THEN obs
        ELSE setFragmentParam(FeatureUpdates(id, obs.value))

\* setObservationId that also clears the feature.
SetObservationIdClearsFeature(id) ==
    setFragmentParam(<< << OBSERVATION_ID_FRAGMENT_PARAM, id >>,
                        << FEATURE_ID_FRAGMENT_PARAM, Null >> >>)

\* setObservationId(id)
SetObservationIdOutcome(id) ==
    setFragmentParam(<< << OBSERVATION_ID_FRAGMENT_PARAM, id >> >>)

\* What the loop `for (const [key, value] of updates)` gets of a string:
\* each character as the key, and no value.
StringEntries(str) == [i \in 1..Len(str) |-> << << str[i] >>, Undefined >>]

\* editObservation(id): the key is passed where the updates belong.
EditObservationOutcome(id) ==
    setFragmentParam(StringEntries(OBSERVATION_ID_FRAGMENT_PARAM))

\* setLayerId that also clears the feature and the observation.
SetLayerIdCascades(id) ==
    setFragmentParam(<< << LAYER_ID_FRAGMENT_PARAM, id >>,
                        << FEATURE_ID_FRAGMENT_PARAM, Null >>,
                        << OBSERVATION_ID_FRAGMENT_PARAM, Null >> >>)

\* setLayerId(id)
SetLayerIdOutcome(id) ==
    setFragmentParam(<< << LAYER_ID_FRAGMENT_PARAM, id >> >>)

\* The stream accessors return the field, set or not.
StreamAccessors ==
    {"getProjectId$", "getLayerId$", "getFeatureId$", "getObservationId$",
     "getSideNavMode$"}
Accessors == StreamAccessors \cup {"getFeatureId", "getObservationId"}

AccessorOutcome(a) ==
    CASE a \in StreamAccessors ->
           Returns(IF initialized THEN ObservableRef ELSE Undefined)
      [] a = "getFeatureId"     -> getFeatureId
      [] a = "getObservationId" -> getObservationId

---------------------------------------------------------------------------
(* The actions. *)

\* The end-to-end scenario: the calls, in order.
ScenarioCalls ==
    << << "setFeatureId", F2 >>, << "setObservationId", O3 >>,
       << "setFeatureId", F9 >> >>

\* The scenario's position after the call op(id).
ScenarioAfterCall(op, id) ==
    IF /\ scenario \in {0, 2, 4}
       /\ initialized
       /\ pending = << >>
       /\ ScenarioCalls[(scenario \div 2) + 1] = << op, id >>
    THEN scenario + 1
    ELSE -1

Init ==
    /\ initialized = FALSE
    /\ url \in InitUrls
    /\ pending = << >>
    /\ history = << UrlString(url) >>
    /\ subscribed = FALSE
    /\ last = [s \in Streams |-> NotSubscribed]
    /\ emits = {}
    /\ views = << >>
    /\ result = NoResult
    /\ scenario = IF url = ScenarioStart THEN 0 ELSE -1
    /\ callsLeft = IF url = ScenarioStart THEN MaxScenarioCalls ELSE MaxCalls

\* init(route)
init ==
    /\ ~initialized
    /\ initialized' = TRUE
    /\ emits' = {}
    /\ views' = << >>
    /\ UNCHANGED << url, pending, history, subscribed, last, result, scenario,
                    callsLeft >>

\* A consumer subscribes to the five streams; each replays its current value.
\* (A run's consumer subscribes before the run's calls of the service,
\* while no navigation is in flight.)
Subscribe ==
    /\ initialized
    /\ ~subscribed
    /\ result = NoResult
    /\ pending = << >>
    /\ subscribed' = TRUE
    /\ last' = [s \in Streams |-> StreamValue(s, url)]
    /\ emits' = Streams
    /\ views' = << >>
    /\ UNCHANGED << initialized, url, pending, history, result, scenario,
                    callsLeft >>

\* A call op(id) with the given outcome: a thrown error requests nothing,
\* a requested navigation supersedes the one in flight.
Call(op, id, outcome) ==
    /\ callsLeft > 0
    /\ callsLeft' = callsLeft - 1
    /\ result' = [op |-> op, id |-> id, pre |-> url, initialized |-> initialized,
                  inflight |-> pending, kind |-> outcome.kind,
                  value |-> outcome.value, request |-> outcome.request,
                  preParams |-> ParamParser(OrEmpty(url.fragment)),
                  requestParams |-> ParamParser(OrEmpty(outcome.request.fragment))]
    /\ pending' = IF outcome.kind = "navigate" THEN << outcome.request >>
                  ELSE pending
    /\ scenario' = ScenarioAfterCall(op, id)
    /\ emits' = {}
    /\ views' = << >>
    /\ UNCHANGED << initialized, url, history, subscribed, last >>

setFeatureId == \E id \in FeatureIds : Call("setFeatureId", id, SetFeatureIdOutcome(id))

setObservationId ==
    \E id \in ObservationIds : Call("setObservationId", id, SetObservationIdOutcome(id))

setLayerId == \E id \in LayerIds : Call("setLayerId", id, SetLayerIdOutcome(id))

editObservation ==
    \E id \in EditObservationIds :
        Call("editObservation", id, EditObservationOutcome(id))

\* A call of an accessor: it changes nothing but what the caller gets.
\* (A run calls an accessor as its first call.)
Accessor ==
    \E a \in Accessors :
        LET outcome == AccessorOutcome(a)
        IN  /\ result = NoResult
            /\ result' = [op |-> a, id |-> Null, pre |-> url,
                          initialized |-> initialized, inflight |-> pending,
                          kind |-> outcome.kind, value |-> outcome.value,
                          request |-> outcome.request,
                          preParams |-> ParamParser(OrEmpty(url.fragment)),
                          requestParams |-> NoParams]
            /\ emits' = {}
            /\ views' = << >>
            /\ UNCHANGED << initialized, url, pending, history, subscribed, last,
                            scenario, callsLeft >>

\* A navigation requested from outside the service.
ExternalNavigation ==
    \E u \in ExternalUrls :
        /\ callsLeft > 0
        /\ callsLeft' = callsLeft - 1
        /\ pending' = << [path |-> u.path, fragment |-> u.fragment,
                          replaceUrl |-> FALSE, by |-> "external"] >>
        /\ scenario' = -1
        /\ emits' = {}
        /\ views' = << >>
        /\ UNCHANGED << initialized, url, history, subscribed, last, result >>

\* The history after a navigation to u: a new entry, or the top one replaced.
HistoryAfter(h, u, replaceUrl) ==
    IF replaceUrl THEN [h EXCEPT ![Len(h)] = UrlString(u)]
    ELSE Append(h, UrlString(u))

\* The router ends the navigation in flight.  A navigation to the current
\* URL is ignored; any other becomes the route state, and the sources whose
\* value differs notify the consumer, whose errored streams stay silent.
Settle ==
    /\ pending # << >>
    /\ pending' = << >>
    /\ LET req  == pending[1]
           next == [path |-> req.path, fragment |-> req.fragment]
       IN  IF UrlString(next) = UrlString(url)
           THEN /\ emits' = {}
                /\ views' = << >>
                /\ UNCHANGED << url, history, last >>
           ELSE /\ url' = next
                /\ history' = HistoryAfter(history, next, req.replaceUrl)
                /\ emits' = {s \in Notified(url, next) :
                                subscribed /\ last[s] # StreamError}
                /\ views' = Deliveries(SelectSeq(NotificationOrder,
                                                  LAMBDA s : s \in emits'),
                                        last, next)
                /\ last' = [s \in Streams |->
                               IF s \in emits' THEN StreamValue(s, next) ELSE last[s]]
    /\ scenario' = IF scenario \in {1, 3, 5} THEN scenario + 1 ELSE scenario
    /\ UNCHANGED << initialized, subscribed, result, callsLeft >>

Next ==
    \/ init
    \/ Subscribe
    \/ setFeatureId
    \/ setObservationId
    \/ setLayerId
    \/ editObservation
    \/ Accessor
    \/ ExternalNavigation
    \/ Settle

Spec == Init /\ [][Next]_vars

---------------------------------------------------------------------------
(* The claims.  A call is Ready when it was made on an initialised service, *)
(* at a URL with a primary path, whose fragment HttpParams can parse; the  *)
(* fragment a call yields is the one of the navigation it requests, which  *)
(* becomes the route's fragment when that navigation settles.              *)

\* The fragment before the call and the fragment it requests, as HttpParams
\* decodes them (the record of the call keeps both).
PreParams     == result.preParams
RequestParams == result.requestParams

Ready ==
    /\ result.initialized
    /\ result.pre.path # << >>
    /\ ~PreParams.err

Keys(m) == {m[i].key : i \in 1..Len(m)}

\* Key k has the same presence and the same values before and after the call.
SameEntry(k) ==
    /\ HasKey(RequestParams.map, k) = HasKey(PreParams.map, k)
    /\ MapGet(RequestParams.map, k) = MapGet(PreParams.map, k)

\* The call's navigation has settled and is the route state.
SettledRequest ==
    /\ result.kind = "navigate"
    /\ pending = << >>
    /\ url = [path |-> result.request.path, fragment |-> result.request.fragment]

FragFO   == Amp(KV(<< "f" >>, F2), KV(<< "o" >>, O3))
FragFOe  == Amp(KV(<< "f" >>, F2), KV(<< "o" >>, << >>))
FragKL   == Amp(KV(<< "k" >>, Q), KV(<< "l" >>, L1))

\* C1: when an observation is selected (the value the service reads for `o`
\* is non-empty), setFeatureId(id) with a non-empty id requests a fragment
\* in which `f` equals id and `o` is absent; from f=F2&o=O3 the fragment
\* is exactly f=<id>.
C1_CascadeOnChange ==
    ( /\ result.op = "setFeatureId"
      /\ Truthy(result.id)
      /\ Ready
      /\ Truthy(Get(PreParams.map, OBSERVATION_ID_FRAGMENT_PARAM)) )
    => /\ result.kind = "navigate"
       /\ ~RequestParams.err
       /\ Get(RequestParams.map, FEATURE_ID_FRAGMENT_PARAM) = result.id
       /\ ~HasKey(RequestParams.map, OBSERVATION_ID_FRAGMENT_PARAM)
       /\ (result.pre.fragment = FragFO
             => result.request.fragment = KV(<< "f" >>, result.id))

C1_Witness ==
    /\ result.op = "setFeatureId"
    /\ result.id = F9
    /\ result.pre.fragment = FragFO
    /\ SettledRequest
    /\ url.fragment = KV(<< "f" >>, F9)

\* What C2 says of a call setFeatureId(null): no `f`, no `o`, `l` as before.
ClearedFeature ==
    /\ result.kind = "navigate"
    /\ ~HasKey(RequestParams.map, FEATURE_ID_FRAGMENT_PARAM)
    /\ ~HasKey(RequestParams.map, OBSERVATION_ID_FRAGMENT_PARAM)
    /\ SameEntry(LAYER_ID_FRAGMENT_PARAM)

ScenarioUrl1 == Amp(KV(<< "l" >>, L1), KV(<< "f" >>, F2))
ScenarioUrl2 == Amp(ScenarioUrl1, KV(<< "o" >>, O3))
ScenarioUrl3 == Amp(KV(<< "l" >>, L1), KV(<< "f" >>, F9))

RequestsFragment(fr) ==
    /\ pending # << >>
    /\ pending[1].path = P1Path
    /\ pending[1].fragment = fr

AtFragment(fr) ==
    /\ pending = << >>
    /\ UrlString(url) = [path |-> P1Path, hash |-> << "#" >> \o fr]

\* C3: from project/p1#l=L1, each navigation settling before the next
\* call, setFeatureId(F2) gives project/p1#l=L1&f=F2, then
\* setObservationId(O3) gives project/p1#l=L1&f=F2&o=O3, then
\* setFeatureId(F9) gives project/p1#l=L1&f=F9.
C3_EndToEnd ==
    /\ scenario = 1 => RequestsFragment(ScenarioUrl1)
    /\ scenario = 2 => AtFragment(ScenarioUrl1)
    /\ scenario = 3 => RequestsFragment(ScenarioUrl2)
    /\ scenario = 4 => AtFragment(ScenarioUrl2)
    /\ scenario = 5 => RequestsFragment(ScenarioUrl3)
    /\ scenario = 6 => AtFragment(ScenarioUrl3)

C3_Witness == scenario = 6 /\ AtFragment(ScenarioUrl3)

\* The projection by the presence of the keys.
PresenceMode(m) ==
    IF HasKey(m, OBSERVATION_ID_FRAGMENT_PARAM) THEN OBSERVATION
    ELSE IF HasKey(m, FEATURE_ID_FRAGMENT_PARAM) THEN FEATURE
    ELSE LAYER_LIST

AllValuesNonEmpty(m) ==
    \A i \in 1..Len(m) : \A j \in 1..Len(m[i].vals) : m[i].vals[j] # << >>

\* C4: the mode the consumer holds is one of the three modes; when every
\* present key of the current fragment has non-empty values it is
\* OBSERVATION if `o` is present, else FEATURE if `f` is present, else
\* LAYER_LIST; and when the mode stream emits, the id streams emit with it,
\* each holding its key's value in that same fragment.
C4_ModePrecedence ==
    LET p == ParamParser(OrEmpty(url.fragment))
    IN  (subscribed /\ ~p.err /\ last["sideNavMode"] # StreamError)
        => /\ last["sideNavMode"] \in {LAYER_LIST, FEATURE, OBSERVATION}
           /\ AllValuesNonEmpty(p.map)
                => last["sideNavMode"] = PresenceMode(p.map)
           /\ "sideNavMode" \in emits
                => /\ FragmentStreams \subseteq emits
                   /\ last["layerId"] = Get(p.map, LAYER_ID_FRAGMENT_PARAM)
                   /\ last["featureId"] = Get(p.map, FEATURE_ID_FRAGMENT_PARAM)
                   /\ last["observationId"] = Get(p.map, OBSERVATION_ID_FRAGMENT_PARAM)

C4_Witness ==
    /\ subscribed
    /\ "sideNavMode" \in emits
    /\ url.fragment = ScenarioUrl2
    /\ last["sideNavMode"] = OBSERVATION
    /\ last["featureId"] = F2

C6_LayerIndependent ==
    (result.op = "setLayerId" /\ Truthy(result.id) /\ Ready)
    => /\ result.kind = "navigate"
       /\ ~RequestParams.err
       /\ MapGet(RequestParams.map, LAYER_ID_FRAGMENT_PARAM) = << result.id >>
       /\ SameEntry(FEATURE_ID_FRAGMENT_PARAM)
       /\ SameEntry(OBSERVATION_ID_FRAGMENT_PARAM)
       /\ (result.pre.fragment = FragFO
             => {RequestParams.map[i] : i \in 1..Len(RequestParams.map)}
                = { [key |-> << "l" >>, vals |-> << result.id >>],
                    [key |-> << "f" >>, vals |-> << F2 >>],
                    [key |-> << "o" >>, vals |-> << O3 >>] })

C6_Witness ==
    /\ result.op = "setLayerId"
    /\ result.id = Q
    /\ result.pre.fragment = FragFO
    /\ SettledRequest
    /\ url.fragment = Amp(FragFO, KV(<< "l" >>, Q))

\* The updates of the last call, a fragment-mutating operation.
CallUpdates ==
    CASE result.op = "setFeatureId" ->
           FeatureUpdates(result.id, Get(PreParams.map, OBSERVATION_ID_FRAGMENT_PARAM))
      [] result.op = "setObservationId" ->
           << << OBSERVATION_ID_FRAGMENT_PARAM, result.id >> >>
      [] result.op = "setLayerId" ->
           << << LAYER_ID_FRAGMENT_PARAM, result.id >> >>

\* The fragment map the last call leaves.
LeftParams == ApplyUpdates(PreParams.map, CallUpdates)

Mutators == {"setFeatureId", "setObservationId", "setLayerId"}

\* C7: a fragment-mutating operation that leaves no key requests a
\* navigation with no fragment at all, never with the empty string; one
\* that leaves a key requests exactly the encoded map as the fragment.
C7_EmptyFragmentSuppressed ==
    (result.op \in Mutators /\ Ready)
    => /\ result.kind = "navigate"
       /\ result.request.fragment # << >>
       /\ IF LeftParams = << >>
          THEN result.request.fragment = Undefined
          ELSE result.request.fragment = ToString(LeftParams)

C7_Witness ==
    /\ result.op = "setFeatureId"
    /\ result.id = Null
    /\ result.pre.fragment = KV(<< "f" >>, F2)
    /\ SettledRequest
    /\ url.fragment = Undefined
    /\ Hash(url.fragment) = << >>

\* C8 as stated: the fragment-mutating operations replace the current
\* history entry: no navigation the service requested changes the length
\* of the history when it settles.
C8_Original ==
    [][(pending # << >> /\ pending[1].by = "service")
          => Len(history') = Len(history)]_vars

IdStreams == {"layerId", "featureId", "observationId"}

\* C9 as stated: an id stream notifies its consumer in a navigation only
\* when the value of its own key changes.
C9_Original ==
    [][\A s \in IdStreams :
          (url' # url /\ StreamValue(s, url') = StreamValue(s, url))
             => s \notin emits']_vars

InitializationError == << "InitializationError" >>

\* C10 as stated: an accessor called before init(route) fails with an
\* InitializationError.
C10_Original ==
    (result.op \in Accessors /\ ~result.initialized)
    => (result.kind = "throws" /\ result.value = InitializationError)

---------------------------------------------------------------------------
\* The key a fragment-mutating operation writes.
KeyOf(op) ==
    CASE op = "setFeatureId"     -> FEATURE_ID_FRAGMENT_PARAM
      [] op = "setObservationId" -> OBSERVATION_ID_FRAGMENT_PARAM
      [] op = "setLayerId"       -> LAYER_ID_FRAGMENT_PARAM

\* C11: a fragment-mutating operation called with null or the empty string
\* requests a fragment from which its key is absent, and one called on a
\* fragment with no empty value requests a fragment with no empty value
\* (so no sequence of these operations brings an empty value in).
C11_EmptyIdMeansAbsence ==
    (result.op \in Mutators /\ Ready)
    => /\ result.kind = "navigate"
       /\ ~RequestParams.err
       /\ ~Truthy(result.id) => ~HasKey(RequestParams.map, KeyOf(result.op))
       /\ AllValuesNonEmpty(PreParams.map) => AllValuesNonEmpty(RequestParams.map)

C11_Witness ==
    /\ result.op = "setLayerId"
    /\ result.id = << >>
    /\ result.pre.fragment = FragKL
    /\ SettledRequest
    /\ url.fragment = KV(<< "k" >>, Q)

FragKK == Amp(KV(<< "k" >>, << "%", "2", "6", "=" >>), KV(<< "k" >>, Q))

UnknownKeys(m) ==
    Keys(m) \ {LAYER_ID_FRAGMENT_PARAM, FEATURE_ID_FRAGMENT_PARAM,
               OBSERVATION_ID_FRAGMENT_PARAM}

---------------------------------------------------------------------------
\* A fragment is well formed when it is empty or every token between its
\* "&" separators has an "=".
WellFormed(fragment) ==
    \/ OrEmpty(fragment) = << >>
    \/ LET tokens == Split(OrEmpty(fragment), "&")
       IN  \A i \in 1..Len(tokens) : IndexOf(tokens[i], "=") # 0

\* The fragment operation op called with id requests from an empty fragment.
FromEmpty(op, id) ==
    NavigationExtras(ToString(ApplyUpdates(<< >>,
        IF op = "setFeatureId" THEN FeatureUpdates(id, Null)
        ELSE << << KeyOf(op), id >> >>))).fragment

\* C13 as stated: a fragment that is not well formed is decoded as the
\* empty fragment is (the ids null, the mode LAYER_LIST, no stream failing)
\* and a fragment mutation called on it raises no error and requests the
\* fragment it requests from the empty fragment.
C13_Original ==
    /\ (subscribed /\ ~WellFormed(url.fragment))
       => /\ \A s \in IdStreams : last[s] = Null
          /\ last["sideNavMode"] = LAYER_LIST
    /\ ( /\ result.op \in Mutators
         /\ result.initialized
         /\ result.pre.path # << >>
         /\ ~WellFormed(result.pre.fragment) )
       => /\ result.kind = "navigate"
          /\ result.request.fragment = FromEmpty(result.op, result.id)

---------------------------------------------------------------------------
\* A fragment map of the round trip: every key once, keys and values
\* non-empty and of characters that need no escape.
UrlSafe(str) == str # << >> /\ \A i \in 1..Len(str) : str[i] \notin {"%", "&", "="}

UrlSafeMap(m) ==
    \A i \in 1..Len(m) :
        /\ UrlSafe(m[i].key)
        /\ Len(m[i].vals) = 1
        /\ UrlSafe(m[i].vals[1])

\* The last call sets its key to the one value the key has.
SetsSameValue ==
    /\ result.op \in Mutators
    /\ Ready
    /\ MapGet(PreParams.map, KeyOf(result.op)) = << result.id >>

\* C15 as stated: over the fragment maps of URL-safe keys and non-empty
\* URL-safe values, decoding the encoded map gives the map, and a fragment
\* mutation that sets a key to the value it has requests a fragment whose
\* decoded content is the current one.
C15_Original ==
    (result.op \in Mutators /\ Ready /\ UrlSafeMap(PreParams.map))
    => /\ ParamParser(ToString(PreParams.map)) = [err |-> FALSE, map |-> PreParams.map]
       /\ SetsSameValue => RequestParams.map = PreParams.map

\* C15: decoding the encoded map gives the map, for the starting map and
\* for the map a fragment mutation leaves (whose encoding is the fragment
\* it requests), whatever the values; and setObservationId or setLayerId,
\* or setFeatureId with no observation selected, that sets a key to the
\* one value it has requests a fragment whose decoded content is the
\* current one, while setFeatureId with an observation selected requests
\* that content without `o`.
C15_RoundTrip ==
    (result.op \in Mutators /\ Ready)
    => /\ ParamParser(ToString(PreParams.map)) = [err |-> FALSE, map |-> PreParams.map]
       /\ ParamParser(ToString(LeftParams)) = [err |-> FALSE, map |-> LeftParams]
       /\ RequestParams.map = LeftParams
       /\ SetsSameValue
            => IF /\ result.op = "setFeatureId"
                  /\ Truthy(Get(PreParams.map, OBSERVATION_ID_FRAGMENT_PARAM))
               THEN RequestParams.map
                      = MapDelete(PreParams.map, OBSERVATION_ID_FRAGMENT_PARAM)
               ELSE RequestParams.map = PreParams.map

C15_Witness ==
    /\ SetsSameValue
    /\ result.op = "setObservationId"
    /\ result.id = O3
    /\ result.pre.fragment = FragFO
    /\ UrlSafeMap(PreParams.map)
    /\ result.request.fragment = FragFO
    /\ pending = << >>

---------------------------------------------------------------------------
\* C14 as stated: at every notification of a navigation, the values the
\* consumer holds of the five streams are all those of the route state the
\* navigation led to.
C14_Original ==
    \A i \in 1..Len(views) :
        \A s \in Streams : views[i].held[s] = StreamValue(s, url)

---------------------------------------------------------------------------
\* The fragments with an empty value the projection is asked about.
FragOe == KV(<< "o" >>, << >>)
FragFe == KV(<< "f" >>, << >>)

\* The mode the consumer holds at a route whose fragment parses.
ModeAt(fragment) ==
    /\ subscribed
    /\ url.fragment = fragment
    /\ last["sideNavMode"] # StreamError

---------------------------------------------------------------------------
\* The last call was made while a navigation the service had requested was
\* in flight, and its own navigation has settled.
BackToBackSettled ==
    /\ result.op \in {"setObservationId", "setLayerId"}
    /\ Ready
    /\ result.inflight # << >>
    /\ result.inflight[1].by = "service"
    /\ SettledRequest

\* C17 as stated: when a fragment mutation is called while the navigation
\* of the one before it is in flight, the fragment that settles holds the
\* second mutation and, for every other key, what the first one requested.
C17_Original ==
    BackToBackSettled
    => LET first  == ParamParser(OrEmpty(result.inflight[1].fragment)).map
           second == ParamParser(OrEmpty(url.fragment)).map
       IN  /\ Truthy(result.id) => Get(second, KeyOf(result.op)) = result.id
           /\ \A k \in (Keys(first) \cup Keys(second)) \ {KeyOf(result.op)} :
                 /\ HasKey(second, k) = HasKey(first, k)
                 /\ MapGet(second, k) = MapGet(first, k)

---------------------------------------------------------------------------
\* C18 as stated: at every current URL a fragment mutation requests a
\* navigation to the path of that URL, and once it has settled the project
\* id is the one before the call, for the consumer of its stream too.
C18_Original ==
    (result.op \in Mutators /\ result.initialized /\ ~PreParams.err)
    => /\ result.kind = "navigate"
       /\ result.request.path = result.pre.path
       /\ SettledRequest
            => /\ ProjectIdOf(url.path) = ProjectIdOf(result.pre.path)
               /\ subscribed => last["projectId"] = ProjectIdOf(result.pre.path)

---------------------------------------------------------------------------
\* C19: once the navigation of setFeatureId(id) with a non-empty id has
\* settled, the mode the consumer holds is FEATURE; of setFeatureId(null),
\* LAYER_LIST; of setObservationId(id) with a non-empty id, OBSERVATION;
\* from every starting fragment that parses, those with an empty or a
\* repeated `f` or `o` among them.
C19_CommandsAgree ==
    (Ready /\ SettledRequest /\ subscribed /\ last["sideNavMode"] # StreamError)
    => /\ (result.op = "setFeatureId" /\ Truthy(result.id))
            => last["sideNavMode"] = FEATURE
       /\ (result.op = "setFeatureId" /\ result.id = Null)
            => last["sideNavMode"] = LAYER_LIST
       /\ (result.op = "setObservationId" /\ Truthy(result.id))
            => last["sideNavMode"] = OBSERVATION

C19_Witness ==
    /\ result.op = "setFeatureId"
    /\ result.id = F9
    /\ result.pre.fragment = Amp(KV(<< "o" >>, << >>), KV(<< "o" >>, O3))
    /\ SettledRequest
    /\ subscribed
    /\ "sideNavMode" \in emits
    /\ last["sideNavMode"] = FEATURE
    /\ MapGet(ParamParser(url.fragment).map, << "o" >>) = << << >>, O3 >>

---------------------------------------------------------------------------
\* C20 as stated: editObservation(id) requests the navigation that
\* setObservationId(id) requests, to the same path and the same fragment:
\* with a non-empty id `o` is id in it, with null `o` is absent from it.
C20_Original ==
    (result.op = "editObservation" /\ Ready)
    => /\ result.kind = "navigate"
       /\ result.request.path = result.pre.path
       /\ result.request.fragment
            = NavigationExtras(ToString(ApplyUpdates(PreParams.map,
                  << << OBSERVATION_ID_FRAGMENT_PARAM, result.id >> >>))).fragment
       /\ IF Truthy(result.id)
          THEN Get(RequestParams.map, OBSERVATION_ID_FRAGMENT_PARAM) = result.id
          ELSE ~HasKey(RequestParams.map, OBSERVATION_ID_FRAGMENT_PARAM)

=============================================================================
